---- MODULE Spec2Model ----
(***************************************************************************)
(* Weighted consistent hashing with bounded loads (weighted_consistent.go).*)
(* The ring object WeightedConsistent is the state; NewWeighted, Add,      *)
(* Remove and the read operations are the actions.  Byte strings are       *)
(* sequences of byte values, hashes are naturals below the hasher's        *)
(* modulus, float64 loads are the integers they always hold.               *)
(* Spec takes the calls of one caller, one after the other; SpecConcurrent *)
(* takes the calls of one writing and several reading goroutines in the   *)
(* steps of their code, with the RWMutex between them; SpecWriters lets    *)
(* several goroutines write; SpecLive is SpecWriters with the fairness of  *)
(* the Go scheduler and of the RWMutex; SpecWrapper takes the calls of one *)
(* caller of the WeightedWrapper (weighted_wrapper.go) and                 *)
(* SpecWrapperConcurrent the calls of several goroutines that share one.   *)
(***************************************************************************)
EXTENDS Integers, Sequences, FiniteSets, TLC

VARIABLES
    pc,            \* "init" before NewWeighted, "ready" after it, "failed" when it panicked
    config,        \* WeightedConfig: PartitionCount, ReplicationFactor, Load (as LoadNum/LoadDen)
    hasher,        \* the Hasher supplied in the config
    sortedSet,     \* c.sortedSet: sequence of hashes
    ring,          \* c.ring: hash -> member
    members,       \* c.members: name -> member
    weights,       \* c.weights: name -> normalized weight
    totalWeight,   \* c.totalWeight
    partitions,    \* c.partitions: partID -> member
    loads,         \* c.loads: name -> number of partitions
    ret,           \* the call the caller has made and what it returned
    before,        \* history: the ring as it was when that call started
    everPanicked,  \* history: NewWeighted, Add or Remove has panicked
    mu,            \* c.mu: the sync.RWMutex
    writer,        \* the goroutines that call Add and Remove: where each is in its call
    callers,       \* the goroutines that call the read operations: where each is
    observed,      \* history: key -> identities LocateKey returned since the last change
    wrapper        \* a WeightedWrapper: its weights and its embedded Consistent

vars == <<pc, config, hasher, sortedSet, ring, members, weights, totalWeight,
          partitions, loads, ret, before, everPanicked, mu, writer, callers, observed,
          wrapper>>

----
\* Bounds of the model.

\* Largest Weight() a member reports (the smallest is 0).
MaxWeight == 2
\* Longest member list handed to NewWeighted.
MaxInitMembers == 2
\* Largest count handed to GetClosestN / GetClosestNForPartition.
MaxCount == 3
\* Largest partition id handed to GetPartitionOwner / GetClosestNForPartition
\* beyond PartitionCount - 1.
ExtraPartIDs == 1
\* Goroutines that call the read operations concurrently.
NumReaders == 2
\* Goroutines that call Add and Remove concurrently.
NumWriters == 2

\* Member identities and their bytes ([]byte(name)).
Names == {"a", "b", "a1"}
NameBytes(name) ==
    CASE name = "a" -> <<97>>
      [] name = "b" -> <<98>>
      [] name = "a1" -> <<97, 49>>
      [] name = "zz" -> <<122, 122>>

\* No WeightedWrapper constructed: the value of wrapper where only the
\* WeightedConsistent is used.
NoWrapper == [weights |-> << >>, Consistent |-> << >>]

\* A name that is never registered.
Nonexistent == "zz"

\* WeightedMember values: what String() and Weight() return.
MemberValues ==
    {[name |-> "a", weight |-> 0], [name |-> "a", weight |-> MaxWeight],
     [name |-> "b", weight |-> 1], [name |-> "b", weight |-> MaxWeight],
     [name |-> "a1", weight |-> 1]}

\* Keys handed to LocateKey / GetClosestN.
Keys == {<<107>>, <<107, 49>>, <<120>>}

\* Hashers handed to NewWeighted: Sum64 folds the bytes,
\* h := ((h + b) * (h + b + mult)) % mod.  Under WideHasher the names, the
\* replica keys and the partition keys of the model have distinct hashes;
\* under NarrowHasher "a" and "b" have the same hash, and so have their
\* replica keys.
WideHasher == [seed |-> 7, mult |-> 131, mod |-> 40009]
NarrowHasher == [seed |-> 6, mult |-> 29, mod |-> 59]

\* Configurations handed to NewWeighted (Load = LoadNum / LoadDen), none of
\* them with a zero field, so that no default applies.
Setups ==
    { [config |-> [PartitionCount |-> 3, ReplicationFactor |-> 1, LoadNum |-> 5, LoadDen |-> 4],
       hasher |-> WideHasher],
      [config |-> [PartitionCount |-> 4, ReplicationFactor |-> 2, LoadNum |-> 1, LoadDen |-> 1],
       hasher |-> WideHasher],
      [config |-> [PartitionCount |-> 3, ReplicationFactor |-> 2, LoadNum |-> 5, LoadDen |-> 4],
       hasher |-> NarrowHasher] }

----
\* Maps (Go maps are functions with a finite domain; a missing key reads as
\* the zero value).

EmptyMap == [x \in {} |-> 0]

MapPut(m, k, v) == [x \in (DOMAIN m) \cup {k} |-> IF x = k THEN v ELSE m[x]]

MapDelete(m, k) == [x \in (DOMAIN m) \ {k} |-> m[x]]

MapGetInt(m, k) == IF k \in DOMAIN m THEN m[k] ELSE 0

RECURSIVE SumOver(_, _)
SumOver(f, S) ==
    IF S = {} THEN 0
    ELSE LET x == CHOOSE y \in S : TRUE IN f[x] + SumOver(f, S \ {x})

SumMap(f) == SumOver(f, DOMAIN f)

----
\* Hashing and encodings.

RECURSIVE Fold(_, _, _)
Fold(hs, h, data) ==
    IF data = <<>> THEN h
    ELSE Fold(hs, ((h + Head(data)) * (h + Head(data) + hs.mult)) % hs.mod, Tail(data))

\* Hasher.Sum64
Sum64(hs, data) == Fold(hs, hs.seed, data)

\* fmt.Sprintf("%d", i) for i >= 0
RECURSIVE Itoa(_)
Itoa(i) == IF i < 10 THEN <<48 + i>> ELSE Itoa(i \div 10) \o <<48 + (i % 10)>>

\* fmt.Sprintf("%s%d", name, i)
ReplicaKey(name, i) == NameBytes(name) \o Itoa(i)

\* binary.LittleEndian.PutUint64(bs, v), n bytes
RECURSIVE LittleEndian(_, _)
LittleEndian(v, n) ==
    IF n = 0 THEN <<>> ELSE <<v % 256>> \o LittleEndian(v \div 256, n - 1)

PartitionKey(partID) == LittleEndian(partID, 8)

\* sort.Slice(c.sortedSet, <): insertion into an ascending sequence
RECURSIVE InsertSorted(_, _)
InsertSorted(s, h) ==
    IF s = <<>> THEN <<h>>
    ELSE IF h <= Head(s) THEN <<h>> \o s
    ELSE <<Head(s)>> \o InsertSorted(Tail(s), h)

RECURSIVE SortAscending(_)
SortAscending(s) == IF s = <<>> THEN <<>> ELSE InsertSorted(SortAscending(Tail(s)), Head(s))

\* sort.Search(n, f): binary search for the smallest index in [0, n) with
\* s[i] >= key, n if there is none (indices are 0-based as in the code).
RECURSIVE Search(_, _, _, _)
Search(s, key, lo, hi) ==
    IF lo >= hi THEN lo
    ELSE LET mid == (lo + hi) \div 2 IN
         IF ~(s[mid + 1] >= key) THEN Search(s, key, mid + 1, hi)
         ELSE Search(s, key, lo, mid)

----
\* The fields of the ring as one record, for the operators below.

Ring ==
    [sortedSet |-> sortedSet, ring |-> ring, members |-> members,
     weights |-> weights, totalWeight |-> totalWeight,
     partitions |-> partitions, loads |-> loads]

\* The WeightedConsistent that NewWeighted allocates.
NewRing ==
    [sortedSet |-> <<>>, ring |-> EmptyMap, members |-> EmptyMap,
     weights |-> EmptyMap, totalWeight |-> 0,
     partitions |-> EmptyMap, loads |-> EmptyMap]

Install(c) ==
    /\ sortedSet' = c.sortedSet
    /\ ring' = c.ring
    /\ members' = c.members
    /\ weights' = c.weights
    /\ totalWeight' = c.totalWeight
    /\ partitions' = c.partitions
    /\ loads' = c.loads

ringVars == <<sortedSet, ring, members, weights, totalWeight, partitions, loads>>

\* ceil(x / y) for x >= 0, y > 0
CeilDiv(x, y) == (x + y - 1) \div y

\* averageLoad: ceil(partitionCount / totalWeight * Load)
averageLoad(cfg, c) ==
    IF Cardinality(DOMAIN c.members) = 0 \/ c.totalWeight = 0 THEN 0
    ELSE CeilDiv(cfg.PartitionCount * cfg.LoadNum, c.totalWeight * cfg.LoadDen)

\* A test that lets a member at its expected load take one more partition.
HasRoomAtLimit(load, expectedLoad) == load <= expectedLoad

\* The test of distributeWithLoad: the member has room for one more partition.
HasRoom(load, expectedLoad) == load + 1 <= expectedLoad

\* distributeWithLoad: the walk from idx; count is the number of entries
\* looked at so far.  The result is the new tables, or a panic.
RECURSIVE distributeWalk(_, _, _, _, _, _, _)
distributeWalk(cfg, c, partID, idx, count, parts, lds) ==
    IF count + 1 >= Len(c.sortedSet)
    THEN [ok |-> FALSE, panic |-> "not enough room to distribute partitions"]
    ELSE LET i == c.sortedSet[idx + 1] IN
         IF i \notin DOMAIN c.ring
         THEN [ok |-> FALSE, panic |-> "nil pointer dereference"]
         ELSE LET member == c.ring[i]
                  memberWeight == MapGetInt(c.weights, member.name)
                  expectedLoad == averageLoad(cfg, c) * memberWeight
                  load == MapGetInt(lds, member.name)
              IN IF HasRoom(load, expectedLoad)
                 THEN [ok |-> TRUE,
                       partitions |-> MapPut(parts, partID, member),
                       loads |-> MapPut(lds, member.name, load + 1)]
                 ELSE distributeWalk(cfg, c, partID,
                                     IF idx + 1 >= Len(c.sortedSet) THEN 0 ELSE idx + 1,
                                     count + 1, parts, lds)

distributeWithLoad(cfg, c, partID, idx, parts, lds) ==
    distributeWalk(cfg, c, partID, idx, 0, parts, lds)

\* A start index that ignores the partition's hash.
StartIndexZero(hs, c, partID) == 0

\* The start index of partition partID in distributePartitions.
StartIndex(hs, c, partID) ==
    LET key == Sum64(hs, PartitionKey(partID))
        idx == Search(c.sortedSet, key, 0, Len(c.sortedSet))
    IN IF idx >= Len(c.sortedSet) THEN 0 ELSE idx

\* distributePartitions, from partition partID on.
RECURSIVE distributeFrom(_, _, _, _, _, _)
distributeFrom(cfg, hs, c, partID, parts, lds) ==
    IF partID >= cfg.PartitionCount
    THEN [ok |-> TRUE, partitions |-> parts, loads |-> lds]
    ELSE LET r == distributeWithLoad(cfg, c, partID, StartIndex(hs, c, partID), parts, lds)
         IN IF r.ok
            THEN distributeFrom(cfg, hs, c, partID + 1, r.partitions, r.loads)
            ELSE [ok |-> FALSE, panic |-> r.panic, partitions |-> parts, loads |-> lds]

\* A distributePartitions that fills c.partitions and c.loads in place, so that
\* a panic leaves the tables as far as the loop got.
distributePartitionsInPlace(cfg, hs, c) ==
    LET r == distributeFrom(cfg, hs, c, 0, EmptyMap, EmptyMap)
    IN [ok |-> r.ok,
        c |-> [c EXCEPT !.partitions = r.partitions, !.loads = r.loads],
        panic |-> IF r.ok THEN "" ELSE r.panic]

\* distributePartitions: the ring with both tables replaced, or a panic that
\* leaves c as it is.
distributePartitions(cfg, hs, c) ==
    LET r == distributeFrom(cfg, hs, c, 0, EmptyMap, EmptyMap)
    IN IF r.ok
       THEN [ok |-> TRUE,
             c |-> [c EXCEPT !.partitions = r.partitions, !.loads = r.loads]]
       ELSE [ok |-> FALSE, c |-> c, panic |-> r.panic]

\* The weight add records for a member.
NormalizedWeight(weight) == IF weight <= 0 THEN 1 ELSE weight

\* A loop of add that leaves the association of a hash that is in the ring.
RECURSIVE addReplicasKeepFirst(_, _, _, _, _)
addReplicasKeepFirst(hs, c, member, i, replicas) ==
    IF i >= replicas THEN c
    ELSE LET h == Sum64(hs, ReplicaKey(member.name, i))
         IN addReplicasKeepFirst(hs,
                        [c EXCEPT !.ring = IF h \in DOMAIN c.ring THEN c.ring
                                           ELSE MapPut(c.ring, h, member),
                                  !.sortedSet = Append(c.sortedSet, h)],
                        member, i + 1, replicas)

\* The loop of add: replicas i .. replicas-1 are put in the ring.
RECURSIVE addReplicas(_, _, _, _, _)
addReplicas(hs, c, member, i, replicas) ==
    IF i >= replicas THEN c
    ELSE LET h == Sum64(hs, ReplicaKey(member.name, i))
         IN addReplicas(hs,
                        [c EXCEPT !.ring = MapPut(c.ring, h, member),
                                  !.sortedSet = Append(c.sortedSet, h)],
                        member, i + 1, replicas)

\* An add that leaves the new hashes at the end of the sequence.
addUnsorted(cfg, hs, c, member) ==
    LET weight == NormalizedWeight(member.weight)
        replicas == cfg.ReplicationFactor * weight
        c1 == addReplicas(hs, c, member, 0, replicas)
    IN [c1 EXCEPT !.members = MapPut(c1.members, member.name, member),
                  !.weights = MapPut(c1.weights, member.name, weight),
                  !.totalWeight = c1.totalWeight + weight]

\* add
add(cfg, hs, c, member) ==
    LET weight == NormalizedWeight(member.weight)
        replicas == cfg.ReplicationFactor * weight
        c1 == addReplicas(hs, c, member, 0, replicas)
    IN [c1 EXCEPT !.sortedSet = SortAscending(c1.sortedSet),
                  !.members = MapPut(c1.members, member.name, member),
                  !.weights = MapPut(c1.weights, member.name, weight),
                  !.totalWeight = c1.totalWeight + weight]

\* delSlice: the first occurrence of val is cut out.
RECURSIVE delSlice(_, _)
delSlice(s, val) ==
    IF s = <<>> THEN <<>>
    ELSE IF Head(s) = val THEN Tail(s)
    ELSE <<Head(s)>> \o delSlice(Tail(s), val)

\* The loop of Remove: replicas i .. replicas-1 are taken out of the ring.
RECURSIVE removeReplicas(_, _, _, _, _)
removeReplicas(hs, c, name, i, replicas) ==
    IF i >= replicas THEN c
    ELSE LET h == Sum64(hs, ReplicaKey(name, i))
         IN removeReplicas(hs,
                           [c EXCEPT !.ring = MapDelete(c.ring, h),
                                     !.sortedSet = delSlice(c.sortedSet, h)],
                           name, i + 1, replicas)

----
\* The lock and the goroutines.  A sync.RWMutex is held by one writer or by
\* any number of readers.  Lock calls take their turn one at a time; the one
\* whose turn it is (pending) keeps new readers out and waits for the
\* readers that hold the lock to leave.
Readers == 1..NumReaders
Writers == 1..NumWriters

Unlocked == [writer |-> FALSE, pending |-> FALSE, readers |-> {}]

\* A read lock that does not wait for the writer.
CanRLockAnytime(m) == TRUE

\* c.mu.RLock() returns.
CanRLock(m) == ~m.writer /\ ~m.pending

\* c.mu.Lock() takes its turn among the Lock calls.
CanQueue(m) == ~m.writer /\ ~m.pending

\* A Lock that does not wait for the readers to leave.
CanLockAnytime(m) == TRUE

\* c.mu.Lock() returns.
CanLock(m) == ~m.writer /\ m.readers = {}

IdleWriter == [pc |-> "idle", op |-> "none", member |-> [name |-> "", weight |-> 0]]

IdleCaller ==
    [pc |-> "idle", op |-> "none", key |-> <<>>, partID |-> 0,
     val |-> [name |-> "", weight |-> 0], stale |-> FALSE]

lockVars == <<mu, writer, callers, observed>>

----
\* What a call returned: op and its arguments, status "ok" or "panic", the
\* value and the error.
Ret(op, arg, count, status, val, err) ==
    [op |-> op, arg |-> arg, count |-> count, status |-> status, val |-> val, err |-> err]

NoRet == Ret("none", 0, 0, "ok", 0, "nil")

\* The caller is between two calls.
Idle == ret.op = "none"

\* The absent member (a nil WeightedMember).
Nil == [name |-> "", weight |-> 0]

ErrInsufficientMemberCount == "insufficient member count"

\* Member lists handed to NewWeighted: nil, or a list of at most
\* MaxInitMembers members (identities may repeat).
RECURSIVE ListsUpTo(_)
ListsUpTo(n) ==
    IF n = 0 THEN {<<>>}
    ELSE LET shorter == ListsUpTo(n - 1) IN
         shorter \cup {Append(l, m) : l \in {x \in shorter : Len(x) = n - 1}, m \in MemberValues}

MemberLists ==
    {[isNil |-> TRUE, list |-> <<>>]}
    \cup {[isNil |-> FALSE, list |-> l] : l \in ListsUpTo(MaxInitMembers)}

\* The loop of NewWeighted: c.add for every member of the list.
RECURSIVE addAll(_, _, _, _)
addAll(cfg, hs, c, list) ==
    IF list = <<>> THEN c
    ELSE addAll(cfg, hs, add(cfg, hs, c, Head(list)), Tail(list))

\* NewWeighted, after the defaults: the ring, or a panic.
newWeighted(cfg, hs, ml) ==
    LET c == addAll(cfg, hs, NewRing, ml.list)
    IN IF ml.isNil THEN [ok |-> TRUE, c |-> c]
       ELSE distributePartitions(cfg, hs, c)

Init ==
    /\ pc = "init"
    /\ \E s \in Setups : config = s.config /\ hasher = s.hasher
    /\ sortedSet = <<>>
    /\ ring = EmptyMap
    /\ members = EmptyMap
    /\ weights = EmptyMap
    /\ totalWeight = 0
    /\ partitions = EmptyMap
    /\ loads = EmptyMap
    /\ ret = NoRet
    /\ before = NewRing
    /\ everPanicked = FALSE
    /\ mu = Unlocked
    /\ writer = [w \in Writers |-> IdleWriter]
    /\ callers = [t \in Readers |-> IdleCaller]
    /\ observed = [k \in Keys |-> {}]
    /\ wrapper = NoWrapper

\* c := NewWeighted(members, config)
NewWeighted(ml) ==
    /\ pc = "init"
    /\ Idle
    /\ LET r == newWeighted(config, hasher, ml) IN
       IF r.ok
       THEN /\ pc' = "ready"
            /\ Install(r.c)
            /\ ret' = Ret("NewWeighted", ml, 0, "ok", 0, "nil")
            /\ UNCHANGED everPanicked
       ELSE /\ pc' = "failed"
            /\ ret' = Ret("NewWeighted", ml, 0, "panic", 0, r.panic)
            /\ everPanicked' = TRUE
            /\ UNCHANGED ringVars
    /\ before' = NewRing
    /\ UNCHANGED <<config, hasher, wrapper, lockVars>>

\* An Add without the membership test.
addUnchecked(cfg, hs, c, member) == distributePartitions(cfg, hs, add(cfg, hs, c, member))

\* The body of Add under the lock: the ring it leaves, and whether it panicked.
addMember(cfg, hs, c, member) ==
    IF member.name \in DOMAIN c.members
    THEN [ok |-> TRUE, c |-> c]
    ELSE distributePartitions(cfg, hs, add(cfg, hs, c, member))

\* c.Add(member)
Add(member) ==
    /\ pc = "ready"
    /\ Idle
    /\ LET r == addMember(config, hasher, Ring, member) IN
       /\ Install(r.c)
       /\ ret' = Ret("Add", member, 0, IF r.ok THEN "ok" ELSE "panic", 0,
                     IF r.ok THEN "nil" ELSE r.panic)
       /\ everPanicked' = (everPanicked \/ ~r.ok)
    /\ before' = Ring
    /\ UNCHANGED <<pc, config, hasher, wrapper, lockVars>>

\* The weight Remove reads for the member it removes.
removedWeight(c, name) == MapGetInt(c.weights, name)

\* A removal that keeps the partition table when the last member goes.
unregisterKeepingTable(cfg, hs, c, name) ==
    LET weight == removedWeight(c, name)
        replicas == cfg.ReplicationFactor * weight
        c1 == removeReplicas(hs, c, name, 0, replicas)
    IN [c1 EXCEPT !.members = MapDelete(c1.members, name),
                  !.totalWeight = c1.totalWeight - MapGetInt(c1.weights, name),
                  !.weights = MapDelete(c1.weights, name)]

\* Remove after its membership test, up to the test for the empty ring: the
\* member's ring entries, its registration and its weight are taken out, and
\* on the last member the partition table and the total weight are reset.
unregister(cfg, hs, c, name) ==
    LET weight == removedWeight(c, name)
        replicas == cfg.ReplicationFactor * weight
        c1 == removeReplicas(hs, c, name, 0, replicas)
        c2 == [c1 EXCEPT !.members = MapDelete(c1.members, name),
                         !.totalWeight = c1.totalWeight - MapGetInt(c1.weights, name),
                         !.weights = MapDelete(c1.weights, name)]
    IN IF Cardinality(DOMAIN c2.members) = 0
       THEN [c2 EXCEPT !.partitions = EmptyMap, !.totalWeight = 0]
       ELSE c2

\* A Remove that leaves the partition table as it is.
removeKeepingTable(cfg, hs, c, name) == [ok |-> TRUE, c |-> unregister(cfg, hs, c, name)]

\* Remove after its membership test.
removeRegistered(cfg, hs, c, name) ==
    LET c2 == unregister(cfg, hs, c, name)
    IN IF Cardinality(DOMAIN c2.members) = 0
       THEN [ok |-> TRUE, c |-> c2]
       ELSE distributePartitions(cfg, hs, c2)

\* A Remove without the membership test.
removeUnchecked(cfg, hs, c, name) == removeRegistered(cfg, hs, c, name)

\* The body of Remove under the lock.
removeMember(cfg, hs, c, name) ==
    IF name \notin DOMAIN c.members
    THEN [ok |-> TRUE, c |-> c]
    ELSE removeRegistered(cfg, hs, c, name)

\* c.Remove(name)
Remove(name) ==
    /\ pc = "ready"
    /\ Idle
    /\ LET r == removeMember(config, hasher, Ring, name) IN
       /\ Install(r.c)
       /\ ret' = Ret("Remove", name, 0, IF r.ok THEN "ok" ELSE "panic", 0,
                     IF r.ok THEN "nil" ELSE r.panic)
       /\ everPanicked' = (everPanicked \/ ~r.ok)
    /\ before' = Ring
    /\ UNCHANGED <<pc, config, hasher, wrapper, lockVars>>

----
\* Read operations.

\* FindPartitionID: hash(key) % partitionCount
FindPartitionID(cfg, hs, key) == Sum64(hs, key) % cfg.PartitionCount

\* getPartitionOwner: the member the table holds, Nil if there is none.
getPartitionOwner(c, partID) ==
    IF partID \in DOMAIN c.partitions THEN c.partitions[partID] ELSE Nil

\* LocateKey
locateKey(cfg, hs, c, key) == getPartitionOwner(c, FindPartitionID(cfg, hs, key))

\* The first loop of getClosestN over c.members, in the iteration order
\* `order` of the map: the keys appended, kmems and ownerKey.
RECURSIVE hashNames(_, _, _, _, _)
hashNames(hs, c, owner, order, acc) ==
    IF order = <<>> THEN acc
    ELSE LET name == Head(order)
             key == Sum64(hs, NameBytes(name))
         IN hashNames(hs, c, owner, Tail(order),
                [keys |-> Append(acc.keys, key),
                 kmems |-> MapPut(acc.kmems, key, c.members[name]),
                 ownerKey |-> IF name = owner.name THEN key ELSE acc.ownerKey])

\* The loop that looks for the owner's key: the index it stops at (0-based).
RECURSIVE findOwner(_, _, _)
findOwner(keys, ownerKey, idx) ==
    IF idx < Len(keys) /\ keys[idx + 1] # ownerKey
    THEN findOwner(keys, ownerKey, idx + 1)
    ELSE idx

\* The loop that collects the following members.
RECURSIVE collect(_, _, _, _, _)
collect(keys, kmems, idx, count, res) ==
    IF Len(res) < count
    THEN LET next == IF idx + 1 >= Len(keys) THEN 0 ELSE idx + 1
         IN collect(keys, kmems, next, count, Append(res, kmems[keys[next + 1]]))
    ELSE res

\* All orders in which a range over a map with these keys may run.
Orders(S) ==
    {o \in [1..Cardinality(S) -> S] : \A i, j \in 1..Cardinality(S) : i # j => o[i] # o[j]}

\* A guard that lets one member more than there are be asked for.
insufficientByTwo(c, count) == count > Cardinality(DOMAIN c.members) + 1

\* The guard of getClosestN: more members are asked for than there are.
insufficient(c, count) == count > Cardinality(DOMAIN c.members)

\* getClosestN after its guard, with the iteration order of the range over
\* c.members as a parameter.  owner.String() on a nil owner and keys[idx] on
\* an empty slice panic.
closestFrom(hs, c, partID, count, order) ==
    LET owner == getPartitionOwner(c, partID) IN
    IF owner = Nil /\ order # <<>>
    THEN [status |-> "panic", val |-> <<>>, err |-> "nil pointer dereference"]
    ELSE IF order = <<>> /\ count > 0
    THEN [status |-> "panic", val |-> <<>>, err |-> "index out of range"]
    ELSE LET h == hashNames(hs, c, owner, order,
                            [keys |-> <<>>, kmems |-> EmptyMap, ownerKey |-> 0])
             keys == SortAscending(h.keys)
             idx == findOwner(keys, h.ownerKey, 0)
             res0 == IF idx < Len(keys) THEN <<h.kmems[keys[idx + 1]]>> ELSE <<>>
         IN [status |-> "ok",
             val |-> collect(keys, h.kmems, idx, count, res0),
             err |-> "nil"]

\* getClosestN
getClosestN(hs, c, partID, count, order) ==
    IF insufficient(c, count)
    THEN [status |-> "ok", val |-> <<>>, err |-> ErrInsufficientMemberCount]
    ELSE closestFrom(hs, c, partID, count, order)

\* Counts and partition ids handed to the read operations.
Counts == 0..MaxCount
PartIDs == 0..(config.PartitionCount - 1 + ExtraPartIDs)

readFrame == <<pc, config, hasher, wrapper, ringVars, everPanicked, lockVars>>

\* c.GetPartitionOwner(partID)
GetPartitionOwner(partID) ==
    /\ pc = "ready"
    /\ Idle
    /\ ret' = Ret("GetPartitionOwner", partID, 0, "ok", getPartitionOwner(Ring, partID), "nil")
    /\ before' = Ring
    /\ UNCHANGED readFrame

\* c.LocateKey(key)
LocateKey(key) ==
    /\ pc = "ready"
    /\ Idle
    /\ ret' = Ret("LocateKey", key, 0, "ok", locateKey(config, hasher, Ring, key), "nil")
    /\ before' = Ring
    /\ UNCHANGED readFrame

\* c.GetClosestNForPartition(partID, count)
GetClosestNForPartition(partID, count) ==
    /\ pc = "ready"
    /\ Idle
    /\ \E order \in Orders(DOMAIN members) :
         LET r == getClosestN(hasher, Ring, partID, count, order) IN
         /\ ret' = Ret("GetClosestNForPartition", partID, count, r.status, r.val, r.err)
    /\ before' = Ring
    /\ UNCHANGED readFrame

\* c.GetClosestN(key, count)
GetClosestN(key, count) ==
    /\ pc = "ready"
    /\ Idle
    /\ \E order \in Orders(DOMAIN members) :
         LET r == getClosestN(hasher, Ring, FindPartitionID(config, hasher, key), count, order) IN
         /\ ret' = Ret("GetClosestN", key, count, r.status, r.val, r.err)
    /\ before' = Ring
    /\ UNCHANGED readFrame

\* c.LoadDistribution(): a copy of c.loads
LoadDistribution ==
    /\ pc = "ready"
    /\ Idle
    /\ ret' = Ret("LoadDistribution", 0, 0, "ok", loads, "nil")
    /\ before' = Ring
    /\ UNCHANGED readFrame

\* c.WeightDistribution(): a copy of c.weights
WeightDistribution ==
    /\ pc = "ready"
    /\ Idle
    /\ ret' = Ret("WeightDistribution", 0, 0, "ok", weights, "nil")
    /\ before' = Ring
    /\ UNCHANGED readFrame

\* c.GetMembers(): the members, in the map's iteration order
GetMembers ==
    /\ pc = "ready"
    /\ Idle
    /\ ret' = Ret("GetMembers", 0, 0, "ok", {members[n] : n \in DOMAIN members}, "nil")
    /\ before' = Ring
    /\ UNCHANGED readFrame

\* c.GetTotalWeight()
GetTotalWeight ==
    /\ pc = "ready"
    /\ Idle
    /\ ret' = Ret("GetTotalWeight", 0, 0, "ok", totalWeight, "nil")
    /\ before' = Ring
    /\ UNCHANGED readFrame

\* c.AverageLoad()
AverageLoad ==
    /\ pc = "ready"
    /\ Idle
    /\ ret' = Ret("AverageLoad", 0, 0, "ok", averageLoad(config, Ring), "nil")
    /\ before' = Ring
    /\ UNCHANGED readFrame

\* The caller takes what the call returned (or recovers from its panic);
\* its next call starts after that.
Return ==
    /\ ~Idle
    /\ ret' = NoRet
    /\ before' = NewRing
    /\ UNCHANGED readFrame

Next ==
    \/ \E ml \in MemberLists : NewWeighted(ml)
    \/ \E member \in MemberValues : Add(member)
    \/ \E name \in Names \cup {Nonexistent} : Remove(name)
    \/ \E partID \in PartIDs : GetPartitionOwner(partID)
    \/ \E key \in Keys : LocateKey(key)
    \/ \E partID \in PartIDs, count \in Counts : GetClosestNForPartition(partID, count)
    \/ \E key \in Keys, count \in Counts : GetClosestN(key, count)
    \/ LoadDistribution
    \/ WeightDistribution
    \/ GetMembers
    \/ GetTotalWeight
    \/ AverageLoad
    \/ Return

Spec == Init /\ [][Next]_vars

----
\* Concurrent callers.  One goroutine calls Add and Remove, NumReaders
\* goroutines call LocateKey and LoadDistribution; each call is taken in the
\* steps of its code: the lock, the body, the deferred unlock, the return.

callFrame == <<pc, config, hasher, wrapper, ret>>

\* What the goroutines pass: the members and names of the writer, the keys
\* of the readers.
WriterMembers == {[name |-> "a", weight |-> MaxWeight], [name |-> "b", weight |-> 1]}
WriterNames == {"a", "b"}
ReaderKeys == {<<107>>, <<120>>}

\* The goroutine that writes when one goroutine alone does.
SoleWriter == CHOOSE w \in Writers : \A v \in Writers : w <= v

\* The configurations of the shared ring.
SharedSetups ==
    {s \in Setups : s.hasher = WideHasher /\ s.config.ReplicationFactor = 1}

\* An Add or Remove changes the ring: the calls in flight overlap the change,
\* and what LocateKey returned before it is forgotten.
TakeEffect ==
    /\ callers' = [t \in Readers |->
                      [callers[t] EXCEPT !.stale = (callers[t].op = "LocateKey")]]
    /\ observed' = [k \in Keys |-> {}]

\* go c.Add(member): c.mu.Lock() is called
GoAdd(w, member) ==
    /\ writer[w].pc = "idle"
    /\ writer' = [writer EXCEPT ![w] = [pc |-> "lock", op |-> "Add", member |-> member]]
    /\ UNCHANGED <<callFrame, before, ringVars, everPanicked, mu, callers, observed>>

\* go c.Remove(name): c.mu.Lock() is called
GoRemove(w, name) ==
    /\ writer[w].pc = "idle"
    /\ writer' = [writer EXCEPT ![w] = [pc |-> "lock", op |-> "Remove",
                                        member |-> [name |-> name, weight |-> 0]]]
    /\ UNCHANGED <<callFrame, before, ringVars, everPanicked, mu, callers, observed>>

\* c.mu.Lock() has its turn: new readers wait from now on
LockWait(w) ==
    /\ writer[w].pc = "lock"
    /\ CanQueue(mu)
    /\ mu' = [mu EXCEPT !.pending = TRUE]
    /\ writer' = [writer EXCEPT ![w].pc = "wait"]
    /\ UNCHANGED <<callFrame, before, ringVars, everPanicked, callers, observed>>

\* c.mu.Lock() returns
Lock(w) ==
    /\ writer[w].pc = "wait"
    /\ CanLock(mu)
    /\ mu' = [mu EXCEPT !.writer = TRUE, !.pending = FALSE]
    /\ writer' = [writer EXCEPT ![w].pc = "update"]
    /\ UNCHANGED <<callFrame, before, ringVars, everPanicked, callers, observed>>

\* Add: the membership test and c.add(member).  Remove: the membership test
\* and the removal, up to the test for the empty ring.
Update(w) ==
    /\ writer[w].pc = "update"
    /\ LET name == writer[w].member.name
           registered == name \in DOMAIN members
       IN IF (writer[w].op = "Add") = registered
          THEN \* We already have this member / there is no member with that name.
               /\ writer' = [writer EXCEPT ![w].pc = "unlock"]
               /\ UNCHANGED <<ringVars, before, callers, observed>>
          ELSE LET c == IF writer[w].op = "Add"
                        THEN add(config, hasher, Ring, writer[w].member)
                        ELSE unregister(config, hasher, Ring, name)
               IN /\ Install(c)
                  /\ before' = Ring
                  /\ writer' = [writer EXCEPT ![w].pc =
                                   IF Cardinality(DOMAIN c.members) = 0
                                   THEN "unlock" ELSE "distribute"]
                  /\ TakeEffect
    /\ UNCHANGED <<callFrame, everPanicked, mu>>

\* A panic that leaves the call without running the deferred Unlock.
PanicSkipsDeferred == "idle"

\* Where a panic in the body takes the call: to its deferred c.mu.Unlock().
PanicUnwinds == "panic"

\* c.distributePartitions(); its panic unwinds to the deferred Unlock
Distribute(w) ==
    /\ writer[w].pc = "distribute"
    /\ LET r == distributePartitions(config, hasher, Ring) IN
       /\ Install(r.c)
       /\ everPanicked' = (everPanicked \/ ~r.ok)
       /\ writer' = [writer EXCEPT ![w].pc = IF r.ok THEN "unlock" ELSE PanicUnwinds]
    /\ UNCHANGED <<callFrame, before, mu, callers, observed>>

\* defer c.mu.Unlock(), and the call returns or the panic goes on to the
\* goroutine, which recovers
Unlock(w) ==
    /\ writer[w].pc \in {"unlock", "panic"}
    /\ mu' = [mu EXCEPT !.writer = FALSE]
    /\ writer' = [writer EXCEPT ![w] = IdleWriter]
    /\ before' = NewRing
    /\ UNCHANGED <<callFrame, ringVars, everPanicked, callers, observed>>

\* go c.LocateKey(key): partID := c.FindPartitionID(key), without the lock
GoLocateKey(t, key) ==
    /\ callers[t].pc = "idle"
    /\ callers' = [callers EXCEPT ![t] =
                      [pc |-> "rlock", op |-> "LocateKey", key |-> key,
                       partID |-> FindPartitionID(config, hasher, key),
                       val |-> Nil, stale |-> FALSE]]
    /\ UNCHANGED <<callFrame, before, ringVars, everPanicked, mu, writer, observed>>

\* go c.LoadDistribution()
GoLoadDistribution(t) ==
    /\ callers[t].pc = "idle"
    /\ callers' = [callers EXCEPT ![t] = [IdleCaller EXCEPT !.pc = "rlock",
                                                            !.op = "LoadDistribution"]]
    /\ UNCHANGED <<callFrame, before, ringVars, everPanicked, mu, writer, observed>>

\* c.mu.RLock() returns
RLock(t) ==
    /\ callers[t].pc = "rlock"
    /\ CanRLock(mu)
    /\ mu' = [mu EXCEPT !.readers = @ \cup {t}]
    /\ callers' = [callers EXCEPT ![t].pc = "read"]
    /\ UNCHANGED <<callFrame, before, ringVars, everPanicked, writer, observed>>

\* The body under the read lock, c.getPartitionOwner(partID) or the copy of
\* c.loads, and the deferred c.mu.RUnlock().
RUnlock(t) ==
    /\ callers[t].pc = "read"
    /\ mu' = [mu EXCEPT !.readers = @ \ {t}]
    /\ callers' = [callers EXCEPT ![t].pc = "return",
                                  ![t].val = IF callers[t].op = "LocateKey"
                                             THEN getPartitionOwner(Ring, callers[t].partID)
                                             ELSE Nil]
    /\ UNCHANGED <<callFrame, before, ringVars, everPanicked, writer, observed>>

\* The call returns to its goroutine.
GoReturn(t) ==
    /\ callers[t].pc = "return"
    /\ observed' = IF callers[t].op = "LocateKey" /\ ~callers[t].stale
                   THEN [observed EXCEPT ![callers[t].key] = @ \cup {callers[t].val.name}]
                   ELSE observed
    /\ callers' = [callers EXCEPT ![t] = IdleCaller]
    /\ UNCHANGED <<callFrame, before, ringVars, everPanicked, mu, writer>>

\* The ring NewWeighted returned, shared by the goroutines.
InitConcurrent ==
    /\ pc = "ready"
    /\ \E s \in SharedSetups, ml \in {l \in MemberLists : l.isNil} :
         LET r == newWeighted(s.config, s.hasher, ml) IN
         /\ r.ok
         /\ config = s.config
         /\ hasher = s.hasher
         /\ sortedSet = r.c.sortedSet
         /\ ring = r.c.ring
         /\ members = r.c.members
         /\ weights = r.c.weights
         /\ totalWeight = r.c.totalWeight
         /\ partitions = r.c.partitions
         /\ loads = r.c.loads
    /\ ret = NoRet
    /\ before = NewRing
    /\ everPanicked = FALSE
    /\ mu = Unlocked
    /\ writer = [w \in Writers |-> IdleWriter]
    /\ callers = [t \in Readers |-> IdleCaller]
    /\ observed = [k \in Keys |-> {}]
    /\ wrapper = NoWrapper

NextConcurrent ==
    \/ \E member \in WriterMembers : GoAdd(SoleWriter, member)
    \/ \E name \in WriterNames : GoRemove(SoleWriter, name)
    \/ LockWait(SoleWriter)
    \/ Lock(SoleWriter)
    \/ Update(SoleWriter)
    \/ Distribute(SoleWriter)
    \/ Unlock(SoleWriter)
    \/ \E t \in Readers, key \in ReaderKeys : GoLocateKey(t, key)
    \/ \E t \in Readers : GoLoadDistribution(t)
    \/ \E t \in Readers : RLock(t)
    \/ \E t \in Readers : RUnlock(t)
    \/ \E t \in Readers : GoReturn(t)

SpecConcurrent == InitConcurrent /\ [][NextConcurrent]_vars

----
\* Concurrent writers.  Every goroutine of Writers adds and removes one and
\* the same member, and the readers call read operations; every read
\* operation has the frame c.mu.RLock(); defer c.mu.RUnlock() around its
\* whole body, so the operation called is a label only.

ReadOps == {"GetPartitionOwner", "GetClosestN", "LoadDistribution", "GetMembers"}

\* The member the writers contend for.
ContendedMembers == {m \in WriterMembers : m.name = "a"}

\* go c.<op>(...): c.mu.RLock() is called
GoRead(t, op) ==
    /\ callers[t].pc = "idle"
    /\ callers' = [callers EXCEPT ![t] = [IdleCaller EXCEPT !.pc = "rlock", !.op = op]]
    /\ UNCHANGED <<callFrame, before, ringVars, everPanicked, mu, writer, observed>>

NextWriters ==
    \/ \E w \in Writers, member \in ContendedMembers : GoAdd(w, member)
    \/ \E w \in Writers, member \in ContendedMembers : GoRemove(w, member.name)
    \/ \E w \in Writers : LockWait(w)
    \/ \E w \in Writers : Lock(w)
    \/ \E w \in Writers : Update(w)
    \/ \E w \in Writers : Distribute(w)
    \/ \E w \in Writers : Unlock(w)
    \/ \E t \in Readers, op \in ReadOps : GoRead(t, op)
    \/ \E t \in Readers : RLock(t)
    \/ \E t \in Readers : RUnlock(t)
    \/ \E t \in Readers : GoReturn(t)

SpecWriters == InitConcurrent /\ [][NextWriters]_vars

----
\* Concurrent callers under a fair lock and a fair scheduler.  The writers
\* add and remove the members of WriterMembers, so that calls that return and
\* calls that panic contend for the lock.  A goroutine that can take its next
\* step takes it (WF); a goroutine that waits for the lock gets it when the
\* lock is free again and again (SF: the lock is fair).  Nothing obliges a
\* goroutine to make a call.

LiveOps == {"GetClosestN"}

NextLive ==
    \/ \E w \in Writers, member \in WriterMembers : GoAdd(w, member)
    \/ \E w \in Writers, name \in WriterNames : GoRemove(w, name)
    \/ \E w \in Writers : LockWait(w)
    \/ \E w \in Writers : Lock(w)
    \/ \E w \in Writers : Update(w)
    \/ \E w \in Writers : Distribute(w)
    \/ \E w \in Writers : Unlock(w)
    \/ \E t \in Readers, op \in LiveOps : GoRead(t, op)
    \/ \E t \in Readers : RLock(t)
    \/ \E t \in Readers : RUnlock(t)
    \/ \E t \in Readers : GoReturn(t)

\* The step of writer w out of the body of its call: the step Update(w) or
\* Distribute(w) takes on the variable writer, whatever it does to the ring.
Body(w) ==
    /\ writer[w].pc \in {"update", "distribute"}
    /\ \E next \in {"distribute", "unlock", "panic"} :
         writer' = [writer EXCEPT ![w].pc = next]

Fairness ==
    /\ \A w \in Writers :
         /\ SF_vars(LockWait(w))
         /\ WF_vars(Lock(w))
         /\ WF_writer(Body(w))
         /\ WF_vars(Unlock(w))
    /\ \A t \in Readers :
         /\ SF_vars(RLock(t))
         /\ WF_vars(RUnlock(t))
         /\ WF_vars(GoReturn(t))

SpecLive == InitConcurrent /\ [][NextLive]_vars /\ Fairness

----
\* The WeightedWrapper: a Consistent ring in which a member of weight w is
\* registered as the w virtual members name#0 .. name#(w-1).  One caller
\* makes one call at a time.

\* The members and names the caller of the wrapper passes.
WrapperMembers == {m \in MemberValues : m.name \in WriterNames}
WrapperLists == {ml \in MemberLists : \A i \in 1..Len(ml.list) : ml.list[i] \in WrapperMembers}

\* fmt.Sprintf("%d", i) for i >= 0, as a string
RECURSIVE Decimal(_)
Decimal(i) ==
    LET digit(d) == <<"0", "1", "2", "3", "4", "5", "6", "7", "8", "9">>[d + 1]
    IN IF i < 10 THEN digit(i) ELSE Decimal(i \div 10) \o digit(i % 10)

\* weightedMemberWrapper.String(): fmt.Sprintf("%s#%d", member, suffix)
VirtualName(name, suffix) == name \o "#" \o Decimal(suffix)

\* &weightedMemberWrapper{member: member, suffix: i}
weightedMemberWrapper(member, i) == [member |-> member, suffix |-> i]

\* The weight the wrapper records: weight <= 0 becomes 1.
wrapperWeight(member) == IF member.weight <= 0 THEN 1 ELSE member.weight

\* The embedded Consistent, an unweighted ring of members under their
\* identities.  Add registers a member unless its identity is registered.
Consistent_Add(c, v) ==
    LET name == VirtualName(v.member.name, v.suffix)
    IN IF name \in DOMAIN c THEN c ELSE MapPut(c, name, v)

\* Remove takes the member of that identity out, if there is one.
Consistent_Remove(c, name) == IF name \in DOMAIN c THEN MapDelete(c, name) ELSE c

\* New registers every member of the list under its identity.
RECURSIVE Consistent_New(_)
Consistent_New(list) ==
    IF list = <<>> THEN EmptyMap
    ELSE LET v == list[Len(list)]
         IN MapPut(Consistent_New(SubSeq(list, 1, Len(list) - 1)),
                   VirtualName(v.member.name, v.suffix), v)

\* GetMembers lists the registered members, each once, in the order o.
Consistent_GetMembers(c, o) == [i \in 1..Len(o) |-> c[o[i]]]

\* LocateKey returns nil on a ring without members and the owner of the key's
\* partition, a registered member, otherwise.
Consistent_LocateKey(c) == IF DOMAIN c = {} THEN {Nil} ELSE {c[n] : n \in DOMAIN c}

\* The virtual members of one member: suffixes from, from + 1, .. below weight.
RECURSIVE expand(_, _, _)
expand(member, from, weight) ==
    IF from >= weight THEN <<>>
    ELSE <<weightedMemberWrapper(member, from)>> \o expand(member, from + 1, weight)

\* The loop of NewWeightedWrapper over the list.
RECURSIVE expandAll(_, _, _)
expandAll(list, wts, expanded) ==
    IF list = <<>> THEN [weights |-> wts, expandedMembers |-> expanded]
    ELSE LET wmember == Head(list)
             weight == wrapperWeight(wmember)
         IN expandAll(Tail(list), MapPut(wts, wmember.name, weight),
                      expanded \o expand(wmember, 0, weight))

newWeightedWrapper(list) ==
    LET r == expandAll(list, EmptyMap, <<>>)
    IN [weights |-> r.weights, Consistent |-> Consistent_New(r.expandedMembers)]

RECURSIVE addVirtual(_, _)
addVirtual(c, list) ==
    IF list = <<>> THEN c ELSE addVirtual(Consistent_Add(c, Head(list)), Tail(list))

\* AddWeighted
addWeighted(w, member) ==
    LET weight == wrapperWeight(member)
    IN IF member.name \in DOMAIN w.weights THEN w
       ELSE [weights |-> MapPut(w.weights, member.name, weight),
             Consistent |-> addVirtual(w.Consistent, expand(member, 0, weight))]

RECURSIVE removeVirtual(_, _, _, _)
removeVirtual(c, name, i, weight) ==
    IF i >= weight THEN c
    ELSE removeVirtual(Consistent_Remove(c, VirtualName(name, i)), name, i + 1, weight)

removeWeighted(w, name) ==
    IF name \notin DOMAIN w.weights THEN w
    ELSE [weights |-> MapDelete(w.weights, name),
          Consistent |-> removeVirtual(w.Consistent, name, 0, w.weights[name])]

\* The loop of GetWeightedMembers over allMembers.
RECURSIVE uniqueMembers(_, _, _)
uniqueMembers(allMembers, seen, result) ==
    IF allMembers = <<>> THEN result
    ELSE LET memberName == Head(allMembers).member.name
         IN IF memberName \in seen
            THEN uniqueMembers(Tail(allMembers), seen, result)
            ELSE uniqueMembers(Tail(allMembers), seen \cup {memberName},
                               Append(result, Head(allMembers).member))

\* GetClosestN of the embedded ring: the members from the owner of the key's
\* partition on, in ascending order of hash(identity) around the circle, which
\* is the order o; it fails when count exceeds the number of members.
Consistent_GetClosestN(c, count, o) ==
    IF count > Cardinality(DOMAIN c)
    THEN [val |-> <<>>, err |-> ErrInsufficientMemberCount]
    ELSE [val |-> [i \in 1..count |-> c[o[i]]], err |-> "nil"]

\* The largest weight in the table, 1 at least.
RECURSIVE maxWeightOver(_, _, _)
maxWeightOver(wts, names, maxWeight) ==
    IF names = {} THEN maxWeight
    ELSE LET n == CHOOSE x \in names : TRUE
         IN maxWeightOver(wts, names \ {n},
                          IF wts[n] > maxWeight THEN wts[n] ELSE maxWeight)

\* The inner loop of GetClosestNWeighted over virtualMembers.
RECURSIVE takeUnique(_, _, _, _)
takeUnique(virtualMembers, count, seen, result) ==
    IF virtualMembers = <<>> \/ Len(result) >= count THEN result
    ELSE LET memberName == Head(virtualMembers).member.name
         IN IF memberName \in seen
            THEN takeUnique(Tail(virtualMembers), count, seen, result)
            ELSE takeUnique(Tail(virtualMembers), count, seen \cup {memberName},
                            Append(result, Head(virtualMembers).member))

\* The outer loop of GetClosestNWeighted, from one requestCount on.
RECURSIVE closestLoop(_, _, _, _)
closestLoop(w, count, requestCount, o) ==
    LET r == Consistent_GetClosestN(w.Consistent, requestCount, o)
        result == takeUnique(r.val, count, {}, <<>>)
        n == Cardinality(DOMAIN w.Consistent)
    IN IF r.err # "nil" THEN [val |-> <<>>, err |-> r.err]
       ELSE IF Len(result) >= count THEN [val |-> SubSeq(result, 1, count), err |-> "nil"]
       ELSE IF requestCount >= n
            THEN IF Len(result) = 0 THEN [val |-> <<>>, err |-> ErrInsufficientMemberCount]
                 ELSE [val |-> result, err |-> "nil"]
       ELSE closestLoop(w, count, IF requestCount * 2 > n THEN n ELSE requestCount * 2, o)

\* GetClosestNWeighted
getClosestNWeighted(w, count, o) ==
    IF count <= 0 THEN [val |-> <<>>, err |-> "nil"]
    ELSE IF count > Cardinality(DOMAIN w.weights)
    THEN [val |-> <<>>, err |-> ErrInsufficientMemberCount]
    ELSE closestLoop(w, count, count * maxWeightOver(w.weights, DOMAIN w.weights, 1), o)

wrapperFrame == <<pc, config, hasher, ringVars, before, everPanicked, lockVars>>

InitWrapper ==
    /\ Init
    /\ config.ReplicationFactor = 1

\* w := NewWeightedWrapper(members, config)
NewWeightedWrapper(ml) ==
    /\ pc = "init"
    /\ Idle
    /\ wrapper' = newWeightedWrapper(ml.list)
    /\ pc' = "ready"
    /\ ret' = Ret("NewWeightedWrapper", ml, 0, "ok", 0, "nil")
    /\ UNCHANGED <<config, hasher, ringVars, before, everPanicked, lockVars>>

\* w.AddWeighted(member)
AddWeighted(member) ==
    /\ pc = "ready"
    /\ Idle
    /\ wrapper' = addWeighted(wrapper, member)
    /\ ret' = Ret("AddWeighted", member, 0, "ok", 0, "nil")
    /\ UNCHANGED wrapperFrame

\* w.RemoveWeighted(name)
RemoveWeighted(name) ==
    /\ pc = "ready"
    /\ Idle
    /\ wrapper' = removeWeighted(wrapper, name)
    /\ ret' = Ret("RemoveWeighted", name, 0, "ok", 0, "nil")
    /\ UNCHANGED wrapperFrame

\* w.LocateKeyWeighted(key)
LocateKeyWeighted(key) ==
    /\ pc = "ready"
    /\ Idle
    /\ \E virtualMember \in Consistent_LocateKey(wrapper.Consistent) :
         ret' = Ret("LocateKeyWeighted", key, 0, "ok",
                    IF virtualMember = Nil THEN Nil ELSE virtualMember.member, "nil")
    /\ UNCHANGED <<wrapperFrame, wrapper>>

\* w.GetWeightedMembers()
GetWeightedMembers ==
    /\ pc = "ready"
    /\ Idle
    /\ \E o \in Orders(DOMAIN wrapper.Consistent) :
         ret' = Ret("GetWeightedMembers", 0, 0, "ok",
                    uniqueMembers(Consistent_GetMembers(wrapper.Consistent, o), {}, <<>>),
                    "nil")
    /\ UNCHANGED <<wrapperFrame, wrapper>>

\* w.GetWeights()
GetWeights ==
    /\ pc = "ready"
    /\ Idle
    /\ ret' = Ret("GetWeights", 0, 0, "ok", wrapper.weights, "nil")
    /\ UNCHANGED <<wrapperFrame, wrapper>>

\* w.GetClosestNWeighted(key, count)
GetClosestNWeighted(key, count) ==
    /\ pc = "ready"
    /\ Idle
    /\ \E o \in Orders(DOMAIN wrapper.Consistent) :
         LET r == getClosestNWeighted(wrapper, count, o)
         IN ret' = Ret("GetClosestNWeighted", key, count, "ok", r.val, r.err)
    /\ UNCHANGED <<wrapperFrame, wrapper>>

\* The caller takes the result and goes on.
WrapperReturn ==
    /\ pc = "ready"
    /\ ~Idle
    /\ ret' = NoRet
    /\ UNCHANGED <<wrapperFrame, wrapper>>

NextWrapper ==
    \/ \E ml \in WrapperLists : NewWeightedWrapper(ml)
    \/ \E member \in WrapperMembers : AddWeighted(member)
    \/ \E name \in WriterNames \cup {Nonexistent} : RemoveWeighted(name)
    \/ \E key \in ReaderKeys : LocateKeyWeighted(key)
    \/ GetWeightedMembers
    \/ GetWeights
    \/ \E key \in ReaderKeys, count \in Counts : GetClosestNWeighted(key, count)
    \/ WrapperReturn

SpecWrapper == InitWrapper /\ [][NextWrapper]_vars

----
\* The WeightedWrapper shared by goroutines.  The wrapper has no lock of its
\* own: a call is the sequence of its accesses to w.weights and of its calls
\* of the embedded Consistent, each of which is one step.  A goroutine is at
\* "exists" before it looks its name up in w.weights, at "store" before it
\* writes the weight, at "loop" in the loop over the virtual members, at
\* "delete" before it deletes the weight and at "range" before it copies the map.
Goroutine(p, op, member, i, weight) ==
    [pc |-> p, op |-> op, member |-> member, i |-> i, weight |-> weight]

IdleGoroutine == Goroutine("idle", "none", Nil, 0, 0)

wrapperCallFrame == <<config, hasher, ringVars, ret, before, everPanicked, mu, callers, observed>>

\* The wrappers the goroutines share: built from lists of distinct members.
InitWrapperConcurrent ==
    /\ pc = "ready"
    /\ \E s \in SharedSetups : config = s.config /\ hasher = s.hasher
    /\ sortedSet = <<>>
    /\ ring = EmptyMap
    /\ members = EmptyMap
    /\ weights = EmptyMap
    /\ totalWeight = 0
    /\ partitions = EmptyMap
    /\ loads = EmptyMap
    /\ ret = NoRet
    /\ before = NewRing
    /\ everPanicked = FALSE
    /\ mu = Unlocked
    /\ writer = [g \in Writers |-> IdleGoroutine]
    /\ callers = [t \in Readers |-> IdleCaller]
    /\ observed = [k \in Keys |-> {}]
    /\ \E ml \in WrapperLists :
         /\ \A i, j \in 1..Len(ml.list) : i # j => ml.list[i].name # ml.list[j].name
         /\ wrapper = newWeightedWrapper(ml.list)

\* go w.AddWeighted(member): the weight is computed
GoAddWeighted(g, member) ==
    /\ pc = "ready"
    /\ writer[g].pc = "idle"
    /\ writer' = [writer EXCEPT ![g] =
                     Goroutine("exists", "AddWeighted", member, 0, wrapperWeight(member))]
    /\ UNCHANGED <<pc, wrapper, wrapperCallFrame>>

\* if _, exists := w.weights[member.String()]; exists { return }
AddWeightedExists(g) ==
    /\ pc = "ready"
    /\ writer[g].pc = "exists"
    /\ writer[g].op = "AddWeighted"
    /\ writer' = [writer EXCEPT ![g] =
                     IF writer[g].member.name \in DOMAIN wrapper.weights
                     THEN IdleGoroutine
                     ELSE [writer[g] EXCEPT !.pc = "store"]]
    /\ UNCHANGED <<pc, wrapper, wrapperCallFrame>>

\* w.weights[member.String()] = weight
AddWeightedStore(g) ==
    /\ pc = "ready"
    /\ writer[g].pc = "store"
    /\ wrapper' = [wrapper EXCEPT
                      !.weights = MapPut(@, writer[g].member.name, writer[g].weight)]
    /\ writer' = [writer EXCEPT ![g].pc = "loop"]
    /\ UNCHANGED <<pc, wrapperCallFrame>>

\* One turn of the loop of AddWeighted: w.Consistent.Add(virtualMember)
AddWeightedLoop(g) ==
    /\ pc = "ready"
    /\ writer[g].pc = "loop"
    /\ writer[g].op = "AddWeighted"
    /\ wrapper' = [wrapper EXCEPT
                      !.Consistent = Consistent_Add(@, weightedMemberWrapper(writer[g].member,
                                                                             writer[g].i))]
    /\ writer' = [writer EXCEPT ![g] =
                     IF writer[g].i + 1 < writer[g].weight
                     THEN [writer[g] EXCEPT !.i = @ + 1]
                     ELSE IdleGoroutine]
    /\ UNCHANGED <<pc, wrapperCallFrame>>

\* go w.RemoveWeighted(name)
GoRemoveWeighted(g, name) ==
    /\ pc = "ready"
    /\ writer[g].pc = "idle"
    /\ writer' = [writer EXCEPT ![g] =
                     Goroutine("exists", "RemoveWeighted", [name |-> name, weight |-> 0], 0, 0)]
    /\ UNCHANGED <<pc, wrapper, wrapperCallFrame>>

\* weight, exists := w.weights[name]; if !exists { return }
RemoveWeightedExists(g) ==
    /\ pc = "ready"
    /\ writer[g].pc = "exists"
    /\ writer[g].op = "RemoveWeighted"
    /\ LET name == writer[g].member.name IN
       writer' = [writer EXCEPT ![g] =
                     IF name \notin DOMAIN wrapper.weights
                     THEN IdleGoroutine
                     ELSE [writer[g] EXCEPT !.pc = "loop", !.weight = wrapper.weights[name]]]
    /\ UNCHANGED <<pc, wrapper, wrapperCallFrame>>

\* One turn of the loop of RemoveWeighted: w.Consistent.Remove(virtualName)
RemoveWeightedLoop(g) ==
    /\ pc = "ready"
    /\ writer[g].pc = "loop"
    /\ writer[g].op = "RemoveWeighted"
    /\ wrapper' = [wrapper EXCEPT
                      !.Consistent = Consistent_Remove(@, VirtualName(writer[g].member.name,
                                                                      writer[g].i))]
    /\ writer' = [writer EXCEPT ![g] =
                     IF writer[g].i + 1 < writer[g].weight
                     THEN [writer[g] EXCEPT !.i = @ + 1]
                     ELSE [writer[g] EXCEPT !.pc = "delete"]]
    /\ UNCHANGED <<pc, wrapperCallFrame>>

\* delete(w.weights, name)
RemoveWeightedDelete(g) ==
    /\ pc = "ready"
    /\ writer[g].pc = "delete"
    /\ wrapper' = [wrapper EXCEPT !.weights = MapDelete(@, writer[g].member.name)]
    /\ writer' = [writer EXCEPT ![g] = IdleGoroutine]
    /\ UNCHANGED <<pc, wrapperCallFrame>>

\* go w.GetWeights()
GoGetWeights(g) ==
    /\ pc = "ready"
    /\ writer[g].pc = "idle"
    /\ writer' = [writer EXCEPT ![g] = Goroutine("range", "GetWeights", Nil, 0, 0)]
    /\ UNCHANGED <<pc, wrapper, wrapperCallFrame>>

\* for name, weight := range w.weights { result[name] = weight }; return result
GetWeightsRange(g) ==
    /\ pc = "ready"
    /\ writer[g].pc = "range"
    /\ writer' = [writer EXCEPT ![g] = IdleGoroutine]
    /\ UNCHANGED <<pc, wrapper, wrapperCallFrame>>

\* The goroutine's next step reads or writes w.weights / writes it.
AtWeights(g) == writer[g].pc \in {"exists", "store", "delete", "range"}
WritesWeights(g) == writer[g].pc \in {"store", "delete"}

\* Two goroutines are at w.weights with nothing that orders them, and one of
\* them writes.
RaceOnWeights ==
    \E g, h \in Writers : g # h /\ WritesWeights(g) /\ AtWeights(h)

\* The two accesses overlap.  What a Go program does then is not defined;
\* the runtime may stop the program with "fatal error: concurrent map writes"
\* (or "concurrent map read and map write"), and otherwise the accesses take
\* effect in either order.
ConcurrentMapAccess ==
    /\ pc = "ready"
    /\ RaceOnWeights
    /\ pc' = "fatal"
    /\ UNCHANGED <<writer, wrapper, wrapperCallFrame>>

NextWrapperConcurrent ==
    \/ \E g \in Writers, member \in WriterMembers : GoAddWeighted(g, member)
    \/ \E g \in Writers : AddWeightedExists(g)
    \/ \E g \in Writers : AddWeightedStore(g)
    \/ \E g \in Writers : AddWeightedLoop(g)
    \/ \E g \in Writers, name \in WriterNames : GoRemoveWeighted(g, name)
    \/ \E g \in Writers : RemoveWeightedExists(g)
    \/ \E g \in Writers : RemoveWeightedLoop(g)
    \/ \E g \in Writers : RemoveWeightedDelete(g)
    \/ \E g \in Writers : GoGetWeights(g)
    \/ \E g \in Writers : GetWeightsRange(g)
    \/ ConcurrentMapAccess

SpecWrapperConcurrent == InitWrapperConcurrent /\ [][NextWrapperConcurrent]_vars

----
\* Properties.

Populated == pc = "ready" /\ DOMAIN members # {}

\* Add or Remove has just returned normally, or NewWeighted has for a
\* non-empty list.
MutationReturned ==
    /\ ret.status = "ok"
    /\ \/ ret.op \in {"Add", "Remove"}
       \/ ret.op = "NewWeighted" /\ ret.arg.list # <<>>

\* The partitions the table maps to the member called name.
PartitionsOf(name) == {p \in DOMAIN partitions : partitions[p].name = name}

AllPartitions == 0..(config.PartitionCount - 1)

\* C1: after NewWeighted with a non-empty member list, and after every Add or
\* Remove that returns normally and leaves a member registered, the loads sum
\* to PartitionCount.
C1_LoadSumAfterEveryCall ==
    (MutationReturned /\ Populated) => SumMap(loads) = config.PartitionCount

\* C1, for the rings on which no NewWeighted, Add or Remove has panicked.
C1_LoadSumNoPanic ==
    (MutationReturned /\ Populated /\ ~everPanicked) => SumMap(loads) = config.PartitionCount

\* C2: in every state reached by calls that returned normally, with a member
\* registered, load[m] <= ceil(avgLoad * weight[m]) for every registered m,
\* avgLoad being computed from the current total weight.
C2_LoadBound ==
    (Populated /\ ~everPanicked) =>
        \A m \in DOMAIN members :
            MapGetInt(loads, m) <=
                CeilDiv(config.PartitionCount * config.LoadNum, totalWeight * config.LoadDen)
                    * weights[m]

\* Add or Remove has returned on a ring of two or more members, and a member
\* holds exactly as many partitions as the bound allows.
C2_Witness ==
    /\ Populated /\ ~everPanicked
    /\ ret.op \in {"Add", "Remove"} /\ ret.status = "ok"
    /\ Cardinality(DOMAIN members) >= 2
    /\ \E m \in DOMAIN members :
          MapGetInt(loads, m) =
              CeilDiv(config.PartitionCount * config.LoadNum, totalWeight * config.LoadDen)
                  * weights[m]

\* C3: after normally returning operations, with a member registered, the
\* partition table has one entry for each partition id, every entry names a
\* registered member and load[m] is the number of partitions mapped to m.
C3_TableComplete ==
    (Populated /\ ~everPanicked) =>
        /\ DOMAIN partitions = AllPartitions
        /\ \A p \in DOMAIN partitions : partitions[p].name \in DOMAIN members
        /\ \A m \in DOMAIN members : MapGetInt(loads, m) = Cardinality(PartitionsOf(m))

\* Remove has taken out a member that owned partitions, and others remain.
C3_Witness ==
    /\ Populated /\ ~everPanicked
    /\ ret.op = "Remove" /\ ret.status = "ok"
    /\ ret.arg \in DOMAIN before.members
    /\ \E p \in DOMAIN before.partitions : before.partitions[p].name = ret.arg
    /\ PartitionsOf(ret.arg) = {}

\* The hashes of the replicas 0 .. n-1 of a member.
ReplicaHashes(name, n) == {Sum64(hasher, ReplicaKey(name, i)) : i \in 0..(n - 1)}

\* The number of times h occurs in the sequence s.
Occurrences(s, h) == Cardinality({i \in 1..Len(s) : s[i] = h})

\* C4: a Remove that removes the last registered member leaves total weight
\* 0, an empty partition table and an empty load table.
C4_RemoveLastResetsTables ==
    (ret.op = "Remove" /\ ret.status = "ok"
        /\ DOMAIN before.members # {} /\ DOMAIN members = {}) =>
        /\ totalWeight = 0
        /\ DOMAIN partitions = {}
        /\ DOMAIN loads = {}

\* C5: Add of a member whose identity is registered returns normally and
\* leaves every field of the ring as it was, whatever Weight() it reports.
C5_AddRegisteredIsNoOp ==
    (ret.op = "Add" /\ ret.arg.name \in DOMAIN before.members) =>
        ret.status = "ok" /\ Ring = before

C5_Witness ==
    /\ ret.op = "Add"
    /\ ret.arg.name \in DOMAIN before.members
    /\ before.members[ret.arg.name].weight # ret.arg.weight
    /\ DOMAIN before.partitions # {}

\* C6: Remove of a name that is not registered returns normally and leaves
\* every field of the ring as it was.
C6_RemoveUnknownIsNoOp ==
    (ret.op = "Remove" /\ ret.arg \notin DOMAIN before.members) =>
        ret.status = "ok" /\ Ring = before

C6_Witness ==
    /\ ret.op = "Remove"
    /\ ret.arg \notin DOMAIN before.members
    /\ DOMAIN before.members # {}
    /\ DOMAIN before.partitions # {}

\* Registration of a member that reports a weight <= 0: it has weight 1 in
\* the weight table; its Add adds 1 to the total weight and ReplicationFactor
\* entries to the ring.
NormalizedOnAdd ==
    /\ \A n \in DOMAIN members : members[n].weight <= 0 => weights[n] = 1
    /\ (ret.op = "Add" /\ ret.arg.weight <= 0 /\ ret.arg.name \notin DOMAIN before.members) =>
        /\ totalWeight = before.totalWeight + 1
        /\ Len(sortedSet) = Len(before.sortedSet) + config.ReplicationFactor
        /\ \A h \in ReplicaHashes(ret.arg.name, config.ReplicationFactor) :
              /\ h \in DOMAIN ring /\ ring[h] = ret.arg
              /\ Occurrences(sortedSet, h) = Occurrences(before.sortedSet, h) + 1
    /\ (ret.op = "NewWeighted" /\ ret.status = "ok" /\ Len(ret.arg.list) = 1
            /\ ret.arg.list[1].weight <= 0) =>
        /\ totalWeight = 1
        /\ Len(sortedSet) = config.ReplicationFactor

\* Removal of a member that reported a weight <= 0: the Remove takes 1 off
\* the total weight and takes its ReplicationFactor entries out of the ring.
NormalizedOnRemove ==
    (ret.op = "Remove" /\ ret.arg \in DOMAIN before.members
        /\ before.members[ret.arg].weight <= 0) =>
        /\ totalWeight = before.totalWeight - 1
        /\ Len(sortedSet) = Len(before.sortedSet) - config.ReplicationFactor
        /\ \A h \in ReplicaHashes(ret.arg, config.ReplicationFactor) :
              /\ h \notin DOMAIN ring
              /\ Occurrences(sortedSet, h) = Occurrences(before.sortedSet, h) - 1
        /\ \A h \in DOMAIN before.ring \ ReplicaHashes(ret.arg, config.ReplicationFactor) :
              h \in DOMAIN ring /\ ring[h] = before.ring[h]

\* C7: a member that reports a weight <= 0 is recorded with weight 1, adds 1
\* to the total weight and ReplicationFactor entries to the ring, and its
\* Remove takes exactly that 1 and those entries away.
C7_WeightNormalized == NormalizedOnAdd /\ NormalizedOnRemove

ClosestOps == {"GetClosestN", "GetClosestNForPartition"}

\* The call in ret is GetClosestN, or GetClosestNForPartition with a valid
\* partition id.
ClosestCall ==
    \/ ret.op = "GetClosestN"
    \/ ret.op = "GetClosestNForPartition" /\ ret.arg \in AllPartitions

DistinctNames(res) == \A i, j \in 1..Len(res) : i # j => res[i].name # res[j].name

\* C8: on a populated ring, for count <= number of members, GetClosestN and
\* GetClosestNForPartition return, without error, count members with pairwise
\* distinct identities.
C8_ClosestNDistinct ==
    (ClosestCall /\ Populated /\ ret.count <= Cardinality(DOMAIN members)) =>
        /\ ret.status = "ok"
        /\ ret.err = "nil"
        /\ Len(ret.val) = ret.count
        /\ DistinctNames(ret.val)

\* C9: with count greater than the number of members, the two calls return
\* ErrInsufficientMemberCount and an empty result, without a panic, and leave
\* the ring as it was; with count at most the number of members, on a ring
\* built by calls that returned normally, they return without error.
C9_InsufficientMembers ==
    /\ (ret.op \in ClosestOps /\ ret.count > Cardinality(DOMAIN before.members)) =>
          /\ ret.status = "ok"
          /\ ret.err = ErrInsufficientMemberCount
          /\ ret.val = <<>>
          /\ Ring = before
    /\ (ClosestCall /\ Populated /\ ~everPanicked
            /\ ret.count <= Cardinality(DOMAIN members)) =>
          ret.status = "ok" /\ ret.err = "nil"

C9_Witness ==
    /\ ret.op \in ClosestOps
    /\ ret.count > Cardinality(DOMAIN before.members)
    /\ DOMAIN before.members # {}
    /\ ret.err = ErrInsufficientMemberCount

\* C10: for every key, the LocateKey calls between which no Add or Remove
\* takes effect return the same identity, whatever other reads run beside
\* them: since the last change at most one identity has been returned for
\* the key, and a call about to return returns that one.
C10_LocateKeyStable ==
    /\ \A k \in Keys : Cardinality(observed[k]) <= 1
    /\ \A t \in Readers :
          (callers[t].pc = "return" /\ callers[t].op = "LocateKey" /\ ~callers[t].stale) =>
              observed[callers[t].key] \subseteq {callers[t].val.name}

\* Two calls for one key, one returned and one about to, with a member as
\* the answer, while another goroutine reads the loads.
C10_Witness ==
    \E t, u \in Readers :
        /\ t # u
        /\ callers[t].pc = "return" /\ callers[t].op = "LocateKey" /\ ~callers[t].stale
        /\ observed[callers[t].key] = {callers[t].val.name}
        /\ callers[t].val # Nil
        /\ callers[u].op = "LoadDistribution" /\ callers[u].pc = "read"
        /\ everPanicked = FALSE
        /\ Cardinality(DOMAIN members) >= 2

\* C11: on a ring without members, built without members or emptied by
\* Remove, LocateKey and GetPartitionOwner return nil for every key and every
\* partition id, without a panic.
C11_EmptyRingReturnsNil ==
    (ret.op \in {"LocateKey", "GetPartitionOwner"} /\ DOMAIN before.members = {}) =>
        ret.status = "ok" /\ ret.val = Nil

\* LocateKey on a ring whose members have all been removed (the loads of the
\* removed members are still in the load table).
C11_Witness ==
    /\ ret.op = "LocateKey"
    /\ DOMAIN before.members = {}
    /\ DOMAIN before.loads # {}
    /\ ret.val = Nil

\* C12: adding a single member to a ring without members, by Add or by
\* NewWeighted with a list of one member, succeeds whatever the member's
\* weight, maps every partition to that member and sets its load to
\* PartitionCount.
C12_SingleMemberOwnsAll ==
    LET single == \/ ret.op = "Add" /\ DOMAIN before.members = {}
                  \/ ret.op = "NewWeighted" /\ Len(ret.arg.list) = 1
        name == IF ret.op = "Add" THEN ret.arg.name ELSE ret.arg.list[1].name
    IN single =>
        /\ ret.status = "ok"
        /\ DOMAIN partitions = AllPartitions
        /\ \A p \in DOMAIN partitions : partitions[p].name = name
        /\ MapGetInt(loads, name) = config.PartitionCount

\* The part of Add and Remove between c.mu.Lock() and the deferred Unlock.
Writing(w) == writer[w].pc \in {"update", "distribute", "unlock", "panic"}

\* C13: no read operation runs its body while an Add or Remove is between
\* its first and its last update of the ring, and no two of Add and Remove
\* run their bodies at the same time.
C13_WritersExclusive ==
    /\ \A w \in Writers : Writing(w) => \A t \in Readers : callers[t].pc # "read"
    /\ \A w, v \in Writers : (w # v /\ Writing(w)) => ~Writing(v)

\* An Add is between c.add and c.distributePartitions while a reader and
\* another writer wait for the lock.
C13_Witness ==
    \E w, v \in Writers, t \in Readers :
        /\ w # v
        /\ writer[w].pc = "distribute" /\ writer[w].op = "Add"
        /\ writer[v].pc = "lock"
        /\ callers[t].pc = "rlock"

\* C14: after NewWeighted, whatever its member list, and after every Add and
\* Remove, GetTotalWeight is the sum of the values of WeightDistribution.
C14_TotalWeightIsSum ==
    pc = "ready" => totalWeight = SumMap(weights)

\* The hashes the ring map associates with the member called name.
RingEntriesOf(name) == {h \in DOMAIN ring : ring[h].name = name}

\* C15: after NewWeighted and after every Add and Remove, each registered
\* member owns ReplicationFactor * weight entries of the ring, the sorted
\* hash sequence has as many elements as the registered members have
\* replicas, and no ring entry belongs to an identity that is not registered.
C15_RingEntriesMatchWeights ==
    pc = "ready" =>
        /\ \A m \in DOMAIN members :
              Cardinality(RingEntriesOf(m)) = config.ReplicationFactor * weights[m]
        /\ Len(sortedSet) = config.ReplicationFactor * SumMap(weights)
        /\ \A h \in DOMAIN ring : ring[h].name \in DOMAIN members

\* C16: NewWeighted with a member list without members, nil or empty, returns
\* a ring with total weight 0, AverageLoad 0 and an empty partition table.
C16_EmptyConstruction ==
    (ret.op = "NewWeighted" /\ ret.arg.list = <<>>) =>
        /\ ret.status = "ok"
        /\ pc = "ready"
        /\ totalWeight = 0
        /\ averageLoad(config, Ring) = 0
        /\ DOMAIN partitions = {}

\* C17: when the distribution of an Add or Remove panics, the partition table
\* and the load table are the tables of before the call, nothing of the failed
\* distribution is in them, and the write lock is held only as long as a call
\* is in its body: the panicking call goes through its deferred Unlock.
C17_PanicKeepsOldTables ==
    /\ \A w \in Writers :
         writer[w].pc = "panic" =>
             /\ partitions = before.partitions
             /\ loads = before.loads
             /\ mu.writer
    /\ mu.writer => \E w \in Writers : Writing(w)
    /\ (\A w \in Writers : writer[w].pc = "idle") => (~mu.writer /\ ~mu.pending)

C17_Witness ==
    /\ everPanicked
    /\ ~mu.writer
    /\ \A w \in Writers : writer[w].pc = "idle"
    /\ DOMAIN partitions = AllPartitions
    /\ \E p \in DOMAIN partitions : partitions[p].name \notin DOMAIN members

\* The identities of the virtual members of the members in the weight table.
VirtualNames(wts) == UNION {{VirtualName(n, i) : i \in 0..(wts[n] - 1)} : n \in DOMAIN wts}

\* C18: after NewWeightedWrapper and any series of AddWeighted and
\* RemoveWeighted calls, the weight table of the wrapper holds the added
\* identities with their normalized weights, the embedded ring holds exactly
\* the virtual members name#0 .. name#(weight-1) of the members in the table,
\* GetWeightedMembers returns each of them exactly once, and
\* LocateKeyWeighted returns a member whenever the table is not empty.
C18_WrapperConsistent ==
    pc = "ready" =>
        /\ DOMAIN wrapper.Consistent = VirtualNames(wrapper.weights)
        /\ \A n \in DOMAIN wrapper.weights :
             wrapper.weights[n] \in {wrapperWeight(m) : m \in {x \in WrapperMembers : x.name = n}}
        /\ ret.op = "NewWeightedWrapper" =>
               DOMAIN wrapper.weights = {ret.arg.list[i].name : i \in 1..Len(ret.arg.list)}
        /\ ret.op = "AddWeighted" => ret.arg.name \in DOMAIN wrapper.weights
        /\ ret.op = "RemoveWeighted" => ret.arg \notin DOMAIN wrapper.weights
        /\ ret.op = "GetWeights" => ret.val = wrapper.weights
        /\ ret.op = "GetWeightedMembers" =>
               /\ Len(ret.val) = Cardinality(DOMAIN wrapper.weights)
               /\ {ret.val[i].name : i \in 1..Len(ret.val)} = DOMAIN wrapper.weights
        /\ (ret.op = "LocateKeyWeighted" /\ DOMAIN wrapper.weights # {}) => ret.val # Nil

\* The ring entries whose member can take one more partition at these loads.
EligibleEntries(c, lds) ==
    {i \in 1..Len(c.sortedSet) :
        /\ c.sortedSet[i] \in DOMAIN c.ring
        /\ LET name == c.ring[c.sortedSet[i]].name
           IN HasRoom(MapGetInt(lds, name), averageLoad(config, c) * MapGetInt(c.weights, name))}

\* C19: a distribution panics with "not enough room to distribute partitions"
\* only when, at the loads it had reached, no entry of the ring belongs to a
\* member that can take one more partition; a ring of one entry is no
\* exception.
C19_PanicOnlyWhenNoRoom ==
    LET c == IF ret.op = "NewWeighted" THEN addAll(config, hasher, NewRing, ret.arg.list)
             ELSE Ring
        r == distributeFrom(config, hasher, c, 0, EmptyMap, EmptyMap)
    IN (/\ ret.op \in {"NewWeighted", "Add", "Remove"}
        /\ ret.status = "panic"
        /\ ret.err = "not enough room to distribute partitions")
       => EligibleEntries(c, r.loads) = {}

\* NewWeighted, Add or Remove has just run distributePartitions to its end.
Distributed ==
    /\ ret.status = "ok"
    /\ \/ ret.op = "NewWeighted" /\ ~ret.arg.isNil
       \/ ret.op = "Add" /\ ret.arg.name \notin DOMAIN before.members
       \/ ret.op = "Remove" /\ ret.arg \in DOMAIN before.members /\ DOMAIN members # {}

\* The load of a member when partition p is distributed: the partitions below
\* p the table gives it.
LoadBefore(p, name) == Cardinality({q \in DOMAIN partitions : q < p /\ partitions[q].name = name})

\* The position (from 1) of the first sorted entry >= the hash of partition
\* p, the first position if there is none.
FirstAtOrAfter(p) ==
    LET key == Sum64(hasher, PartitionKey(p))
        at == {i \in 1..Len(sortedSet) : sortedSet[i] >= key}
    IN IF at = {} THEN 1 ELSE CHOOSE i \in at : \A j \in at : i <= j

\* The position k steps forward on the circle.
WalkPos(p, k) == ((FirstAtOrAfter(p) - 1 + k) % Len(sortedSet)) + 1

\* The steps after which the walk of partition p stands on an entry whose
\* member can take p.
EligibleSteps(p) ==
    {k \in 0..(Len(sortedSet) - 1) :
        LET h == sortedSet[WalkPos(p, k)] IN
        /\ h \in DOMAIN ring
        /\ LoadBefore(p, ring[h].name) + 1
              <= averageLoad(config, Ring) * MapGetInt(weights, ring[h].name)}

FirstEligibleStep(p) == CHOOSE k \in EligibleSteps(p) : \A j \in EligibleSteps(p) : k <= j

\* C20: after a distribution, the owner of every partition p is the owner of
\* the first ring entry, walking the circle from the first sorted entry >=
\* hash(p) (the first entry if there is none), whose member had room for one
\* more partition when p was distributed; and the load table counts exactly
\* the partitions given to each member.
C20_FirstEligibleOwns ==
    Distributed =>
        /\ \A p \in AllPartitions :
             /\ p \in DOMAIN partitions
             /\ EligibleSteps(p) # {}
             /\ partitions[p] = ring[sortedSet[WalkPos(p, FirstEligibleStep(p))]]
        /\ DOMAIN loads = {partitions[p].name : p \in DOMAIN partitions}
        /\ \A name \in DOMAIN loads : loads[name] = Cardinality(PartitionsOf(name))

\* A distribution in which the walk of some partition went past an entry whose
\* member was full, and the walk of some partition started over at the first
\* entry because no hash was >= the partition's.
C20_Witness ==
    /\ Distributed
    /\ \E p \in AllPartitions : FirstEligibleStep(p) > 0
    /\ \E p \in AllPartitions :
         \A i \in 1..Len(sortedSet) : sortedSet[i] < Sum64(hasher, PartitionKey(p))

\* The hashes the ring map of c associates with the member called name.
EntriesIn(c, name) == {h \in DOMAIN c.ring : c.ring[h].name = name}

\* C21: a Remove of a registered member leaves no ring entry of that member,
\* and every other registered member has the hashes it had before, as often
\* in the sorted sequence as before and mapped to it as before.
C21_RemoveDeletesOwnEntries ==
    (ret.op = "Remove" /\ ret.arg \in DOMAIN before.members) =>
        /\ EntriesIn(Ring, ret.arg) = {}
        /\ \A other \in DOMAIN members :
             /\ EntriesIn(Ring, other) = EntriesIn(before, other)
             /\ \A h \in EntriesIn(before, other) :
                  Occurrences(sortedSet, h) = Occurrences(before.sortedSet, h)

\* The index (from 0) of the first element of s that is >= key, Len(s) if
\* there is none.
FirstNotBelow(s, key) ==
    LET at == {i \in 1..Len(s) : s[i] >= key}
    IN IF at = {} THEN Len(s) ELSE (CHOOSE i \in at : \A j \in at : i <= j) - 1

\* C22: after NewWeighted and after every Add and Remove the sorted hash
\* sequence is in ascending order, and the binary search of the distribution
\* finds for every partition the first entry >= the partition's hash.
C22_SortedSetAscending ==
    pc = "ready" =>
        /\ \A i, j \in 1..Len(sortedSet) : i < j => sortedSet[i] <= sortedSet[j]
        /\ \A p \in AllPartitions :
             LET key == Sum64(hasher, PartitionKey(p))
             IN Search(sortedSet, key, 0, Len(sortedSet)) = FirstNotBelow(sortedSet, key)

\* An Add has put hashes before hashes that were in the sequence, and a
\* Remove has then cut hashes out of the middle of it.
C22_Witness ==
    /\ ret.op = "Remove"
    /\ ret.arg \in DOMAIN before.members
    /\ Len(sortedSet) >= 2
    /\ \E i, j, k \in 1..Len(before.sortedSet) :
         /\ i < j /\ j < k
         /\ before.sortedSet[j] \in EntriesIn(before, ret.arg)
         /\ before.sortedSet[i] \notin EntriesIn(before, ret.arg)
         /\ before.sortedSet[k] \notin EntriesIn(before, ret.arg)

\* The hashes of the replicas of the member just added that were in the ring
\* before the Add.
CollidingHashes ==
    ReplicaHashes(ret.arg.name, config.ReplicationFactor * NormalizedWeight(ret.arg.weight))
        \cap DOMAIN before.ring

\* An Add of a member that was not registered, with a replica hash that was
\* in the ring already.
CollidingAdd ==
    /\ ret.op = "Add"
    /\ ret.arg.name \notin DOMAIN before.members
    /\ CollidingHashes # {}

\* C23: an Add of a new member, one of whose replica hashes is in the ring
\* already, returns normally; the ring map associates each such hash with the
\* member just added; and the distribution of that Add gives every partition
\* to the member the ring map associates with the entry its walk stops at.
C23_LastWriteWins ==
    CollidingAdd =>
        /\ ret.status = "ok"
        /\ \A h \in CollidingHashes : h \in DOMAIN ring /\ ring[h] = ret.arg
        /\ \A p \in AllPartitions :
             /\ p \in DOMAIN partitions
             /\ EligibleSteps(p) # {}
             /\ partitions[p] = ring[sortedSet[WalkPos(p, FirstEligibleStep(p))]]

\* C23, amended: after an Add of a new member, one of whose replica hashes was
\* in the ring already, the ring map associates each such hash with the
\* member just added, whether the Add returned or panicked; an Add that
\* returned has given every partition to the member the ring map associates
\* with the entry its walk stopped at; an Add that panicked has left both
\* tables as they were.
C23_LastWriteWinsAmended ==
    CollidingAdd =>
        /\ \A h \in CollidingHashes : h \in DOMAIN ring /\ ring[h] = ret.arg
        /\ ret.status = "ok" =>
             \A p \in AllPartitions :
                /\ p \in DOMAIN partitions
                /\ EligibleSteps(p) # {}
                /\ partitions[p] = ring[sortedSet[WalkPos(p, FirstEligibleStep(p))]]
        /\ ret.status # "ok" =>
             /\ ret.status = "panic"
             /\ partitions = before.partitions
             /\ loads = before.loads

\* A colliding Add after which a partition belongs to the member just added,
\* by an entry that was another member's before.
C23_Witness ==
    /\ CollidingAdd
    /\ ret.status = "ok"
    /\ \E p \in AllPartitions :
         /\ sortedSet[WalkPos(p, FirstEligibleStep(p))] \in CollidingHashes
         /\ partitions[p] = ret.arg
         /\ before.ring[sortedSet[WalkPos(p, FirstEligibleStep(p))]].name # ret.arg.name

\* hash(identity) of a registered member.
NameHash(name) == Sum64(hasher, NameBytes(name))

\* The members that follow the member called name in ascending order of
\* hash(identity), the circle closed after the largest hash.
NextByHash(name) ==
    LET above == {n \in DOMAIN members : NameHash(n) > NameHash(name)}
        from == IF above = {} THEN DOMAIN members ELSE above
    IN {n \in from : \A x \in from : NameHash(n) <= NameHash(x)}

\* C24: on a populated ring, for 1 <= count <= number of members,
\* GetClosestN(key, count) returns count members, the first the member
\* LocateKey(key) returns, each following one the next member in ascending
\* order of hash(identity), the circle closed after the largest hash.
C24_ClosestNOrder ==
    (ret.op = "GetClosestN" /\ Populated
        /\ 1 <= ret.count /\ ret.count <= Cardinality(DOMAIN members)) =>
        /\ ret.status = "ok"
        /\ ret.err = "nil"
        /\ Len(ret.val) = ret.count
        /\ ret.val[1] = locateKey(config, hasher, Ring, ret.arg)
        /\ \A i \in 1..(ret.count - 1) :
             /\ ret.val[i + 1].name \in NextByHash(ret.val[i].name)
             /\ ret.val[i + 1] = members[ret.val[i + 1].name]

\* C25: under a fair lock every call of every goroutine returns: a writer
\* that has called Add or Remove comes back to where it makes calls, whether
\* the call returned or panicked, and so does a reader; and the lock is held
\* only by goroutines that are in a call.
C25_EveryCallReturns ==
    /\ []((/\ \A w \in Writers : writer[w].pc \in {"idle", "lock"}
           /\ \A t \in Readers : callers[t].pc \in {"idle", "rlock", "return"})
          => mu = Unlocked)
    /\ \A w \in Writers : (writer[w].pc # "idle") ~> (writer[w].pc = "idle")
    /\ \A t \in Readers : (callers[t].pc # "idle") ~> (callers[t].pc = "idle")

\* A writer has its turn for the lock and waits for a reader that holds it,
\* while another writer and another reader wait behind it, after a call has
\* panicked.
C25_Witness ==
    /\ everPanicked
    /\ \E w, v \in Writers :
         /\ w # v
         /\ writer[w].pc = "wait"
         /\ writer[v].pc = "lock"
    /\ \E t, u \in Readers :
         /\ t # u
         /\ callers[t].pc = "read"
         /\ callers[u].pc = "rlock"

\* C26: GetClosestNWeighted(key, count) with 0 < count <= number of weighted
\* members returns, without error, count weighted members with pairwise
\* distinct identities, whatever their weights.
C26_ClosestNWeighted ==
    (ret.op = "GetClosestNWeighted"
        /\ 0 < ret.count /\ ret.count <= Cardinality(DOMAIN wrapper.weights)) =>
        /\ ret.err = "nil"
        /\ Len(ret.val) = ret.count
        /\ DistinctNames(ret.val)

\* A ring of the same configuration that reaches the registered members, with
\* the weights they report, by another way: NewWeighted(nil) and one Add per
\* member.
RECURSIVE AddedInTurn(_)
AddedInTurn(names) ==
    IF names = {} THEN [ok |-> TRUE, c |-> NewRing]
    ELSE LET n == CHOOSE x \in names : TRUE
             r == AddedInTurn(names \ {n})
         IN addMember(config, hasher, r.c, members[n])

\* C27: the partition table and the load table are those of any other ring
\* of the same configuration with the same registered members and weights,
\* whatever calls have led to it.
C27_TablesDependOnMembersOnly ==
    pc = "ready" =>
        /\ partitions = AddedInTurn(DOMAIN members).c.partitions
        /\ loads = AddedInTurn(DOMAIN members).c.loads

\* The fields of a ring a round trip is to restore.
Observable(c) ==
    [members |-> c.members, weights |-> c.weights, totalWeight |-> c.totalWeight,
     sortedSet |-> c.sortedSet, ring |-> c.ring,
     partitions |-> c.partitions, loads |-> c.loads]

\* The ring after Add(m) and Remove(m.name), whatever the two calls return.
RoundTrip(c, m) ==
    removeMember(config, hasher, addMember(config, hasher, c, m).c, m.name).c

\* C28: from any state of the ring, Add of a member that is not registered
\* followed by Remove of its identity gives back the member set, the weight
\* table, the total weight, the ring entries, the partition table and the
\* load table.
C28_AddRemoveRoundTrip ==
    pc = "ready" =>
        \A m \in MemberValues :
            m.name \notin DOMAIN members =>
                Observable(RoundTrip(Ring, m)) = Observable(Ring)

\* C29: after NewWeighted and after every Add and Remove, every hash of the
\* sorted sequence has a member in the ring map and every hash of the ring
\* map is in the sorted sequence, and no call has panicked on a hash without
\* a member.
C29_SortedSetMatchesRing ==
    /\ pc = "ready" => {sortedSet[i] : i \in 1..Len(sortedSet)} = DOMAIN ring
    /\ ret.op \in {"NewWeighted", "Add", "Remove"} => ret.err # "nil pointer dereference"

\* The call in ret has distributed the partitions over a non-empty set of
\* members with distinct identities, under a hasher without collisions.
FeasibleDistribution ==
    /\ hasher = WideHasher
    /\ \/ /\ ret.op = "NewWeighted"
          /\ ret.arg.list # <<>>
          /\ DistinctNames(ret.arg.list)
       \/ /\ \/ ret.op = "Add" /\ ret.arg.name \notin DOMAIN before.members
             \/ ret.op = "Remove" /\ ret.arg \in DOMAIN before.members
          /\ DOMAIN members # {}
          /\ totalWeight = SumMap(weights)
          /\ Len(sortedSet) = config.ReplicationFactor * SumMap(weights)

\* C30: for a non-empty set of members with distinct identities and hashes
\* that do not collide, NewWeighted, Add and Remove return normally with every
\* partition assigned.
C30_DistributionCompletes ==
    FeasibleDistribution =>
        /\ ret.status = "ok"
        /\ pc = "ready"
        /\ DOMAIN partitions = AllPartitions
        /\ \A p \in AllPartitions : partitions[p].name \in DOMAIN members

\* The panic distributeWithLoad raises when its walk finds no member with room.
NotEnoughRoom == "not enough room to distribute partitions"

\* C31: when Add panics because the partitions cannot be distributed, the
\* ring is as it was before the call: the member is not registered and the
\* members, the weights, the total weight, the ring map and the sorted
\* hashes are unchanged, so the loads of the registered members still sum to
\* PartitionCount on a ring that was populated.
C31_PanickedAddLeavesRing ==
    (ret.op = "Add" /\ ret.status = "panic" /\ ret.err = NotEnoughRoom) =>
        /\ ret.arg.name \notin DOMAIN members
        /\ members = before.members
        /\ weights = before.weights
        /\ totalWeight = before.totalWeight
        /\ ring = before.ring
        /\ sortedSet = before.sortedSet

\* C32: GetClosestN and GetClosestNForPartition do not panic: on every ring,
\* for every partition id, also one outside 0..PartitionCount-1, and every
\* count, the call returns ErrInsufficientMemberCount or, without error, a
\* list of max(count, 0) members.
C32_ClosestNNeverCrashes ==
    ret.op \in ClosestOps =>
        /\ ret.status = "ok"
        /\ \/ ret.err = ErrInsufficientMemberCount
           \/ /\ ret.err = "nil"
              /\ Len(ret.val) = IF ret.count > 0 THEN ret.count ELSE 0

\* The members that have a virtual member in the embedded ring.
InRing == {wrapper.Consistent[n].member.name : n \in DOMAIN wrapper.Consistent}

\* C33: when goroutines call AddWeighted, RemoveWeighted and GetWeights of one
\* wrapper, then once every call has returned the embedded ring has virtual
\* members of exactly the members that have an entry in w.weights, and no two
\* goroutines are ever at w.weights at once with one of them writing.
C33_WrapperWeightsAgree ==
    /\ (\A g \in Writers : writer[g].pc = "idle") => InRing = DOMAIN wrapper.weights
    /\ ~RaceOnWeights
    /\ pc # "fatal"

====
